---- MODULE Spec2Model ----
(***************************************************************************)
(* A model of backend/rag_system.py: the ResumeRAGSystem orchestrator over *)
(* a persistent vector store with three collections, the embedding model,  *)
(* the knowledge seeder and the process-wide instance of get_rag_system.   *)
(*                                                                         *)
(* Every action is one whole call of a method.  The store and the          *)
(* embedding model are external; a call into them may raise, which the     *)
(* parameter f of an operation chooses: f is the index, in the order the   *)
(* method makes them, of the external call that raises (0: none does).     *)
(***************************************************************************)
EXTENDS Integers, Sequences, FiniteSets, TLC

VARIABLES store, rag_system, ret, threads

vars == <<store, rag_system, ret, threads>>

(***************************************************************************)
(* Bounds of the model.                                                    *)
(***************************************************************************)
MaxK == 2
MaxBatch == 3

\* ids callers pass to add_resume and to add_job_description
ResumeIds == {"r1", "r2"}
JobIds == {"r1"}

\* texts callers pass; "" stands for a text whose embedding has zero norm
Texts == {"ta", "tb", ""}

\* texts callers store with add_resume / add_job_description
StoredTexts == {"ta", "tb"}

(***************************************************************************)
(* The curated knowledge base.                                             *)
(***************************************************************************)
KnowledgeSize == 10

KnowledgeIds ==
  <<"knowledge_0", "knowledge_1", "knowledge_2", "knowledge_3", "knowledge_4",
    "knowledge_5", "knowledge_6", "knowledge_7", "knowledge_8", "knowledge_9">>

\* the opening words of each entry's text stand for the text
KnowledgeTexts ==
  <<"Technical skills", "Experience", "Education", "Red flags", "Cultural fit",
    "Leadership", "Certifications", "Industry-specific", "Quantifiable", "Technology stack">>

knowledge_base == [i \in 1..KnowledgeSize |-> [id |-> KnowledgeIds[i], text |-> KnowledgeTexts[i]]]

\* the store call of the seeder chosen to raise: none, count() or one of
\* the adds
SeedFailures == 0..(KnowledgeSize + 1)

\* the fixed query strings of semantic_resume_match and get_resume_insights
QMatch == "resume matching job description skills experience"
QSkills == "technical skills evaluation"
QExperience == "experience assessment"
QRedFlags == "red flags resume"
QIndustry == "industry experience requirements"

(***************************************************************************)
(* The embedding model: a fixed map from text to a vector.  The vectors    *)
(* have integer norms, so that the cosine is an exact rational.            *)
(***************************************************************************)
Embed(t) ==
  CASE t = "ta" -> <<3, 4>>
    [] t = "tb" -> <<4, 3>>
    [] t = "" -> <<0, 0>>
    [] t = "Technical skills" -> <<5, 0>>
    [] t = "Experience" -> <<0, 5>>
    [] t = "Education" -> <<-3, 4>>
    [] t = "Red flags" -> <<-5, 0>>
    [] t = "Cultural fit" -> <<-4, -3>>
    [] t = "Leadership" -> <<0, -5>>
    [] t = "Certifications" -> <<3, -4>>
    [] t = "Industry-specific" -> <<4, -3>>
    [] t = "Quantifiable" -> <<-4, 3>>
    [] t = "Technology stack" -> <<4, 3>>
    [] t = QMatch -> <<3, 4>>
    [] t = QSkills -> <<5, 0>>
    [] t = QExperience -> <<0, 5>>
    [] t = QRedFlags -> <<-5, 0>>
    [] t = QIndustry -> <<4, -3>>

Dot(a, b) == a[1] * b[1] + a[2] * b[2]

\* numpy.linalg.norm, on the vectors above
Norm(a) == CHOOSE n \in 0..10 : n * n = Dot(a, a)

\* the store's distance function (squared L2, the store's default)
Distance(a, b) == Dot(<<a[1] - b[1], a[2] - b[2]>>, <<a[1] - b[1], a[2] - b[2]>>)

(***************************************************************************)
(* Floating-point values: a rational num/den, or NaN.                      *)
(***************************************************************************)
Num(n, d) == [kind |-> "num", num |-> n, den |-> d]
NaN == [kind |-> "nan", num |-> 0, den |-> 1]
Inf(n) == [kind |-> "inf", num |-> n, den |-> 1]
Zero == Num(0, 1)

\* x / y on numpy scalars: 0/0 is nan and n/0 is inf (a warning, no exception)
FDiv(n, d) == IF d = 0 THEN (IF n = 0 THEN NaN ELSE Inf(n)) ELSE Num(n, d)

FMul(x, k) == IF x.kind = "num" THEN Num(x.num * k, x.den) ELSE x

\* x < y on floats: False whenever either side is nan
FLt(x, y) ==
  /\ x.kind # "nan" /\ y.kind # "nan"
  /\ IF x.kind = "inf" THEN (x.num < 0 /\ ~(y.kind = "inf" /\ y.num < 0))
     ELSE IF y.kind = "inf" THEN y.num > 0
     ELSE x.num * y.den < y.num * x.den

\* x == y on floats: False whenever either side is nan
FEq(x, y) ==
  /\ x.kind # "nan" /\ y.kind # "nan"
  /\ IF x.kind = "inf" \/ y.kind = "inf" THEN x = y
     ELSE x.num * y.den = y.num * x.den

(***************************************************************************)
(* The persistent store: three named collections, each existing or not,    *)
(* holding records with ids unique within the collection.                  *)
(***************************************************************************)
Collections == {"resumes", "job_descriptions", "screening_knowledge"}

NoCollection == [exists |-> FALSE, docs |-> {}]
EmptyCollection == [exists |-> TRUE, docs |-> {}]

DocIds(docs) == {d.id : d \in docs}

\* client.get_or_create_collection(name)
GetOrCreate(st, c) == IF st[c].exists THEN st ELSE [st EXCEPT ![c] = EmptyCollection]

(***************************************************************************)
(* The orchestrator instance.  A collection handle is "unset" (attribute   *)
(* never assigned), "None" or "live" (a collection object of its name; a   *)
(* call through it goes through while that collection exists).  instance   *)
(* is the identity of the object: its number among the objects constructed *)
(* in this process, which the caller of the constructor gives it (0: no    *)
(* object).                                                                *)
(***************************************************************************)
NoInstance ==
  [constructed |-> FALSE, initialized |-> "unset", embedding_model |-> "unset",
   client |-> "unset", resume_collection |-> "unset", jd_collection |-> "unset",
   knowledge_collection |-> "unset", instance |-> 0]

\* a call through handle h on collection c goes through
Usable(st, h, c) == h = "live" /\ st[c].exists

(***************************************************************************)
(* Calls into the embedding model and the store.  Each yields ok = FALSE   *)
(* when the call raises.                                                   *)
(***************************************************************************)
\* embedding_model.encode(text)
Encode(inst, t, failed) ==
  IF inst.embedding_model = "loaded" /\ ~failed
  THEN [ok |-> TRUE, v |-> Embed(t)] ELSE [ok |-> FALSE, v |-> <<0, 0>>]

\* a store whose add replaces the record of an id it already holds
C5_AddReplaces(st, h, c, id, t, e, failed) ==
  IF Usable(st, h, c) /\ ~failed
  THEN [ok |-> TRUE,
        st |-> [st EXCEPT ![c].docs = {d \in @ : d.id # id}
                                        \cup {[id |-> id, text |-> t, embedding |-> e]}]]
  ELSE [ok |-> FALSE, st |-> st]

\* collection.add(documents=[text], embeddings=[e], ids=[id]): raises when
\* the id exists.  The record keeps the embedding it was added with.
CollectionAdd(st, h, c, id, t, e, failed) ==
  IF Usable(st, h, c) /\ ~failed /\ id \notin DocIds(st[c].docs)
  THEN [ok |-> TRUE,
        st |-> [st EXCEPT ![c].docs = @ \cup {[id |-> id, text |-> t, embedding |-> e]}]]
  ELSE [ok |-> FALSE, st |-> st]

\* collection.count()
CollectionCount(st, h, c, failed) ==
  IF Usable(st, h, c) /\ ~failed
  THEN [ok |-> TRUE, v |-> Cardinality(st[c].docs)] ELSE [ok |-> FALSE, v |-> 0]

\* a record as a query returns it: with its distance to the query q
Hit(d, q) == [id |-> d.id, text |-> d.text, distance |-> Distance(q, d.embedding)]

RECURSIVE C12_Farthest(_, _)
\* a query that ranks the hits by descending distance
C12_Farthest(hits, k) ==
  IF k = 0 \/ hits = {} THEN <<>>
  ELSE LET distances == {x.distance : x \in hits}
           most == CHOOSE m \in distances : \A n \in distances : m >= n
           d == CHOOSE x \in hits : x.distance = most
       IN <<d>> \o C12_Farthest(hits \ {d}, k - 1)

RECURSIVE Nearest(_, _)
\* the k nearest of the hits, by ascending distance
Nearest(hits, k) ==
  IF k = 0 \/ hits = {} THEN <<>>
  ELSE LET distances == {x.distance : x \in hits}
           least == CHOOSE m \in distances : \A n \in distances : m <= n
           d == CHOOSE x \in hits : x.distance = least
       IN <<d>> \o Nearest(hits \ {d}, k - 1)

\* collection.query(query_embeddings=[q], n_results=k)
CollectionQuery(st, h, c, q, k, failed) ==
  IF Usable(st, h, c) /\ ~failed
  THEN [ok |-> TRUE, v |-> Nearest({Hit(d, q) : d \in st[c].docs}, k)]
  ELSE [ok |-> FALSE, v |-> <<>>]

\* client.delete_collection(name): raises when there is no such collection
DeleteCollection(inst, st, c, failed) ==
  IF inst.client = "open" /\ st[c].exists /\ ~failed
  THEN [ok |-> TRUE, st |-> [st EXCEPT ![c] = NoCollection]] ELSE [ok |-> FALSE, st |-> st]

\* client.create_collection(name): raises when the collection exists
CreateCollection(inst, st, c, failed) ==
  IF inst.client = "open" /\ ~st[c].exists /\ ~failed
  THEN [ok |-> TRUE, st |-> [st EXCEPT ![c] = EmptyCollection]] ELSE [ok |-> FALSE, st |-> st]

\* an except branch that sets the flag and forgets the handles
C4_InitFailedKeepsHandles ==
  [constructed |-> TRUE, initialized |-> "False", embedding_model |-> "loaded",
   client |-> "open", resume_collection |-> "live", jd_collection |-> "live",
   knowledge_collection |-> "live", instance |-> 0]

\* the except branch of __init__
InitFailed ==
  [constructed |-> TRUE, initialized |-> "False", embedding_model |-> "None",
   client |-> "None", resume_collection |-> "None", jd_collection |-> "None",
   knowledge_collection |-> "None", instance |-> 0]

RECURSIVE C7_SeedAllButLast(_, _, _, _)
\* a seeding loop that stops one entry short of the list
C7_SeedAllButLast(st, h, i, g) ==
  IF i > KnowledgeSize - 1 THEN st
  ELSE LET a == CollectionAdd(st, h, "screening_knowledge", knowledge_base[i].id,
                              knowledge_base[i].text, Embed(knowledge_base[i].text),
                              g = i + 1)
       IN IF a.ok THEN C7_SeedAllButLast(a.st, h, i + 1, g) ELSE a.st

RECURSIVE SeedFrom(_, _, _, _)
\* the loop of _initialize_knowledge_base from entry i on: the first add that
\* raises ends it (the exception leaves the loop and is caught after it)
SeedFrom(st, h, i, g) ==
  IF i > KnowledgeSize THEN st
  ELSE LET a == CollectionAdd(st, h, "screening_knowledge", knowledge_base[i].id,
                              knowledge_base[i].text, Embed(knowledge_base[i].text),
                              g = i + 1)
       IN IF a.ok THEN SeedFrom(a.st, h, i + 1, g) ELSE a.st

\* _initialize_knowledge_base: g is the store call that raises (1: count(),
\* 1 + i: the add of the i-th entry).  An unset self.initialized raises
\* AttributeError before the try; what the try catches is swallowed.
InitializeKnowledgeBase(inst, st, g) ==
  IF inst.initialized = "unset" THEN [outcome |-> "raise", st |-> st]
  ELSE IF inst.initialized # "True" THEN [outcome |-> "ok", st |-> st]
  ELSE LET n == CollectionCount(st, inst.knowledge_collection, "screening_knowledge", g = 1)
       IN IF ~n.ok THEN [outcome |-> "ok", st |-> st]
          ELSE IF n.v = 0
            THEN [outcome |-> "ok", st |-> SeedFrom(st, inst.knowledge_collection, 1, g)]
          ELSE [outcome |-> "ok", st |-> st]

\* ResumeRAGSystem.__init__: f is the step that raises (1: the model load,
\* 2: the client, 3..5: get_or_create_collection), g the seeder's store call.
\* seeding tells how the call of the seeder ended, when it was reached.  The
\* except branch catches every Exception: the constructor returns.
Construct(st, f, g) ==
  LET st3 == GetOrCreate(st, "resumes")
      st4 == GetOrCreate(st3, "job_descriptions")
      st5 == GetOrCreate(st4, "screening_knowledge")
      inst5 == [constructed |-> TRUE, initialized |-> "unset", embedding_model |-> "loaded",
                client |-> "open", resume_collection |-> "live", jd_collection |-> "live",
                knowledge_collection |-> "live", instance |-> 0]
      kb == InitializeKnowledgeBase(inst5, st5, g)
      Failed(s, how) == [outcome |-> "ok", inst |-> InitFailed, st |-> s, seeding |-> how]
  IN IF f \in {1, 2, 3} THEN Failed(st, "not reached")
     ELSE IF f = 4 THEN Failed(st3, "not reached")
     ELSE IF f = 5 THEN Failed(st4, "not reached")
     ELSE IF kb.outcome = "raise" THEN Failed(kb.st, "raise")
     ELSE [outcome |-> "ok", inst |-> [inst5 EXCEPT !.initialized = "True"], st |-> kb.st,
           seeding |-> "ok"]

\* methods that do not test self.initialized
C2_NoGuard(inst) == FALSE

NotInitialized(inst) == inst.initialized # "True"

(***************************************************************************)
(* Write operations.                                                       *)
(***************************************************************************)
\* an add without the test of self.initialized
C3_AddWithoutGuard(inst, st, h, c, id, t, f) ==
  LET e == Encode(inst, t, f = 1)
      a == CollectionAdd(st, h, c, id, t, e.v, f = 2)
  IN IF ~e.ok THEN [outcome |-> "raise", st |-> st, calls |-> 1]
     ELSE IF ~a.ok THEN [outcome |-> "raise", st |-> a.st, calls |-> 2]
     ELSE [outcome |-> "ok", st |-> a.st, calls |-> 2]

\* the body of add_resume / add_job_description on collection c, handle h
AddDocument(inst, st, h, c, id, t, f) ==
  IF NotInitialized(inst) THEN [outcome |-> "ok", st |-> st, calls |-> 0]
  ELSE LET e == Encode(inst, t, f = 1)
           a == CollectionAdd(st, h, c, id, t, e.v, f = 2)
       IN IF ~e.ok THEN [outcome |-> "raise", st |-> st, calls |-> 1]
          ELSE IF ~a.ok THEN [outcome |-> "raise", st |-> a.st, calls |-> 2]
          ELSE [outcome |-> "ok", st |-> a.st, calls |-> 2]

add_resume(inst, st, id, t, f) ==
  AddDocument(inst, st, inst.resume_collection, "resumes", id, t, f)

add_job_description(inst, st, id, t, f) ==
  AddDocument(inst, st, inst.jd_collection, "job_descriptions", id, t, f)

\* a clear_database that does not run the seeder again
C8_ClearWithoutReseed(inst, st, f, g) ==
  IF inst.initialized # "True" THEN [outcome |-> "ok", inst |-> inst, st |-> st]
  ELSE LET d1 == DeleteCollection(inst, st, "resumes", f = 1)
           d2 == DeleteCollection(inst, d1.st, "job_descriptions", f = 2)
           d3 == DeleteCollection(inst, d2.st, "screening_knowledge", f = 3)
           c1 == CreateCollection(inst, d3.st, "resumes", f = 4)
           i1 == [inst EXCEPT !.resume_collection = "live"]
           c2 == CreateCollection(inst, c1.st, "job_descriptions", f = 5)
           i2 == [i1 EXCEPT !.jd_collection = "live"]
           c3 == CreateCollection(inst, c2.st, "screening_knowledge", f = 6)
           i3 == [i2 EXCEPT !.knowledge_collection = "live"]
       IN IF ~d1.ok THEN [outcome |-> "raise", inst |-> inst, st |-> st]
          ELSE IF ~d2.ok THEN [outcome |-> "raise", inst |-> inst, st |-> d1.st]
          ELSE IF ~d3.ok THEN [outcome |-> "raise", inst |-> inst, st |-> d2.st]
          ELSE IF ~c1.ok THEN [outcome |-> "raise", inst |-> inst, st |-> d3.st]
          ELSE IF ~c2.ok THEN [outcome |-> "raise", inst |-> i1, st |-> c1.st]
          ELSE IF ~c3.ok THEN [outcome |-> "raise", inst |-> i2, st |-> c2.st]
          ELSE [outcome |-> "ok", inst |-> i3, st |-> c3.st]

\* clear_database: f is the store call that raises (1..3: the deletes,
\* 4..6: the creates), g the seeder's store call
clear_database(inst, st, f, g) ==
  IF NotInitialized(inst) THEN [outcome |-> "ok", inst |-> inst, st |-> st]
  ELSE LET d1 == DeleteCollection(inst, st, "resumes", f = 1)
           d2 == DeleteCollection(inst, d1.st, "job_descriptions", f = 2)
           d3 == DeleteCollection(inst, d2.st, "screening_knowledge", f = 3)
           c1 == CreateCollection(inst, d3.st, "resumes", f = 4)
           i1 == [inst EXCEPT !.resume_collection = "live"]
           c2 == CreateCollection(inst, c1.st, "job_descriptions", f = 5)
           i2 == [i1 EXCEPT !.jd_collection = "live"]
           c3 == CreateCollection(inst, c2.st, "screening_knowledge", f = 6)
           i3 == [i2 EXCEPT !.knowledge_collection = "live"]
           kb == InitializeKnowledgeBase(i3, c3.st, g)
       IN IF ~d1.ok THEN [outcome |-> "raise", inst |-> inst, st |-> st]
          ELSE IF ~d2.ok THEN [outcome |-> "raise", inst |-> inst, st |-> d1.st]
          ELSE IF ~d3.ok THEN [outcome |-> "raise", inst |-> inst, st |-> d2.st]
          ELSE IF ~c1.ok THEN [outcome |-> "raise", inst |-> inst, st |-> d3.st]
          ELSE IF ~c2.ok THEN [outcome |-> "raise", inst |-> i1, st |-> c1.st]
          ELSE IF ~c3.ok THEN [outcome |-> "raise", inst |-> i2, st |-> c2.st]
          ELSE [outcome |-> kb.outcome, inst |-> i3, st |-> kb.st]

(***************************************************************************)
(* Read operations.  calls is the number of calls the operation made into  *)
(* the embedding model and the store.                                      *)
(***************************************************************************)
\* a search whose except branch raises again, as the adds do
C6_SearchReraises(inst, st, h, c, q, k, f) ==
  IF inst.initialized # "True" THEN [outcome |-> "ok", v |-> <<>>, calls |-> 0]
  ELSE LET e == Encode(inst, q, f = 1)
           r == CollectionQuery(st, h, c, e.v, k, f = 2)
       IN IF ~e.ok THEN [outcome |-> "raise", v |-> <<>>, calls |-> 1]
          ELSE IF ~r.ok THEN [outcome |-> "raise", v |-> <<>>, calls |-> 2]
          ELSE [outcome |-> "ok", v |-> r.v, calls |-> 2]

\* the body of search_similar_resumes / search_similar_jobs
SearchSimilar(inst, st, h, c, q, k, f) ==
  IF NotInitialized(inst) THEN [outcome |-> "ok", v |-> <<>>, calls |-> 0]
  ELSE LET e == Encode(inst, q, f = 1)
           r == CollectionQuery(st, h, c, e.v, k, f = 2)
       IN IF ~e.ok THEN [outcome |-> "ok", v |-> <<>>, calls |-> 1]
          ELSE IF ~r.ok THEN [outcome |-> "ok", v |-> <<>>, calls |-> 2]
          ELSE [outcome |-> "ok", v |-> r.v, calls |-> 2]

\* a resume search that queries the job description collection
C11_SearchesJobs(inst, st, q, k, f) ==
  SearchSimilar(inst, st, inst.jd_collection, "job_descriptions", q, k, f)

search_similar_resumes(inst, st, q, k, f) ==
  SearchSimilar(inst, st, inst.resume_collection, "resumes", q, k, f)

search_similar_jobs(inst, st, q, k, f) ==
  SearchSimilar(inst, st, inst.jd_collection, "job_descriptions", q, k, f)

RECURSIVE Documents(_)
\* results["documents"][0]: the texts of the hits, in their order
Documents(hits) == IF hits = <<>> THEN <<>> ELSE <<Head(hits).text>> \o Documents(Tail(hits))

\* get_relevant_knowledge: the documents of the hits only
get_relevant_knowledge(inst, st, q, k, f) ==
  LET r == SearchSimilar(inst, st, inst.knowledge_collection, "screening_knowledge", q, k, f)
  IN [outcome |-> r.outcome, v |-> Documents(r.v), calls |-> r.calls]

\* the failing call of a nested read (two calls: encode, query) whose calls
\* are numbered off + 1 and off + 2 in the read that makes it
Sub(f, off) == IF f - off \in {1, 2} THEN f - off ELSE 0

ZeroMatch ==
  [semantic_similarity |-> Zero, match_score |-> Zero, relevant_knowledge |-> <<>>,
   similar_resumes |-> <<>>, similar_jobs |-> <<>>,
   analysis_context |-> [total_resumes_in_db |-> 0, total_jobs_in_db |-> 0,
                         knowledge_items |-> 0]]

\* a cosine that divides by the norm of the first vector twice
C15_CosineByFirstNorm(a, b) == FDiv(Dot(a, b), Norm(a) * Norm(a))

\* np.dot(a, b) / (np.linalg.norm(a) * np.linalg.norm(b))
CosineSimilarity(a, b) == FDiv(Dot(a, b), Norm(a) * Norm(b))

\* semantic_resume_match: calls 1, 2 encode the two texts, 3..8 are the
\* three nested reads, 9..11 the counts
\* a match that searches each collection with the text of its own kind
C20_MatchSearchesOwnText(inst, st, rt, jt, f) ==
  IF NotInitialized(inst) THEN [outcome |-> "ok", v |-> ZeroMatch, calls |-> 0]
  ELSE LET e1 == Encode(inst, rt, f = 1)
           e2 == Encode(inst, jt, f = 2)
           similarity == CosineSimilarity(e1.v, e2.v)
           kn == get_relevant_knowledge(inst, st, QMatch, 3, Sub(f, 2))
           sr == search_similar_resumes(inst, st, rt, 3, Sub(f, 4))
           sj == search_similar_jobs(inst, st, jt, 3, Sub(f, 6))
           n1 == CollectionCount(st, inst.resume_collection, "resumes", f = 9)
           n2 == CollectionCount(st, inst.jd_collection, "job_descriptions", f = 10)
           n3 == CollectionCount(st, inst.knowledge_collection, "screening_knowledge", f = 11)
           nested == kn.calls + sr.calls + sj.calls
       IN IF ~e1.ok THEN [outcome |-> "ok", v |-> ZeroMatch, calls |-> 1]
          ELSE IF ~e2.ok THEN [outcome |-> "ok", v |-> ZeroMatch, calls |-> 2]
          ELSE IF ~n1.ok THEN [outcome |-> "ok", v |-> ZeroMatch, calls |-> nested + 3]
          ELSE IF ~n2.ok THEN [outcome |-> "ok", v |-> ZeroMatch, calls |-> nested + 4]
          ELSE IF ~n3.ok THEN [outcome |-> "ok", v |-> ZeroMatch, calls |-> nested + 5]
          ELSE [outcome |-> "ok", calls |-> nested + 5,
                v |-> [semantic_similarity |-> similarity,
                       match_score |-> FMul(similarity, 100),
                       relevant_knowledge |-> kn.v,
                       similar_resumes |-> sr.v,
                       similar_jobs |-> sj.v,
                       analysis_context |-> [total_resumes_in_db |-> n1.v,
                                             total_jobs_in_db |-> n2.v,
                                             knowledge_items |-> n3.v]]]

semantic_resume_match(inst, st, rt, jt, f) ==
  IF NotInitialized(inst) THEN [outcome |-> "ok", v |-> ZeroMatch, calls |-> 0]
  ELSE LET e1 == Encode(inst, rt, f = 1)
           e2 == Encode(inst, jt, f = 2)
           similarity == CosineSimilarity(e1.v, e2.v)
           kn == get_relevant_knowledge(inst, st, QMatch, 3, Sub(f, 2))
           sr == search_similar_resumes(inst, st, jt, 3, Sub(f, 4))
           sj == search_similar_jobs(inst, st, rt, 3, Sub(f, 6))
           n1 == CollectionCount(st, inst.resume_collection, "resumes", f = 9)
           n2 == CollectionCount(st, inst.jd_collection, "job_descriptions", f = 10)
           n3 == CollectionCount(st, inst.knowledge_collection, "screening_knowledge", f = 11)
           nested == kn.calls + sr.calls + sj.calls
       IN IF ~e1.ok THEN [outcome |-> "ok", v |-> ZeroMatch, calls |-> 1]
          ELSE IF ~e2.ok THEN [outcome |-> "ok", v |-> ZeroMatch, calls |-> 2]
          ELSE IF ~n1.ok THEN [outcome |-> "ok", v |-> ZeroMatch, calls |-> nested + 3]
          ELSE IF ~n2.ok THEN [outcome |-> "ok", v |-> ZeroMatch, calls |-> nested + 4]
          ELSE IF ~n3.ok THEN [outcome |-> "ok", v |-> ZeroMatch, calls |-> nested + 5]
          ELSE [outcome |-> "ok", calls |-> nested + 5,
                v |-> [semantic_similarity |-> similarity,
                       match_score |-> FMul(similarity, 100),
                       relevant_knowledge |-> kn.v,
                       similar_resumes |-> sr.v,
                       similar_jobs |-> sj.v,
                       analysis_context |-> [total_resumes_in_db |-> n1.v,
                                             total_jobs_in_db |-> n2.v,
                                             knowledge_items |-> n3.v]]]

ZeroInsights ==
  [skill_insights |-> <<>>, experience_insights |-> <<>>, red_flags_insights |-> <<>>,
   similar_resumes |-> <<>>, industry_insights |-> <<>>,
   database_context |-> [total_resumes |-> 0, total_jobs |-> 0]]

\* get_resume_insights: calls 1..10 are the five nested reads, 11 and 12
\* the counts
get_resume_insights(inst, st, rt, f) ==
  IF NotInitialized(inst) THEN [outcome |-> "ok", v |-> ZeroInsights, calls |-> 0]
  ELSE LET k1 == get_relevant_knowledge(inst, st, QSkills, 2, Sub(f, 0))
           k2 == get_relevant_knowledge(inst, st, QExperience, 2, Sub(f, 2))
           k3 == get_relevant_knowledge(inst, st, QRedFlags, 2, Sub(f, 4))
           sr == search_similar_resumes(inst, st, rt, 3, Sub(f, 6))
           k4 == get_relevant_knowledge(inst, st, QIndustry, 1, Sub(f, 8))
           n1 == CollectionCount(st, inst.resume_collection, "resumes", f = 11)
           n2 == CollectionCount(st, inst.jd_collection, "job_descriptions", f = 12)
           nested == k1.calls + k2.calls + k3.calls + sr.calls + k4.calls
       IN IF ~n1.ok THEN [outcome |-> "ok", v |-> ZeroInsights, calls |-> nested + 1]
          ELSE IF ~n2.ok THEN [outcome |-> "ok", v |-> ZeroInsights, calls |-> nested + 2]
          ELSE [outcome |-> "ok", calls |-> nested + 2,
                v |-> [skill_insights |-> k1.v, experience_insights |-> k2.v,
                       red_flags_insights |-> k3.v, similar_resumes |-> sr.v,
                       industry_insights |-> k4.v,
                       database_context |-> [total_resumes |-> n1.v, total_jobs |-> n2.v]]]

ZeroStats(status) ==
  [resumes_count |-> 0, jobs_count |-> 0, knowledge_count |-> 0, total_embeddings |-> 0,
   status |-> status]

\* get_database_stats: six counts, in the order the mapping is built
get_database_stats(inst, st, f) ==
  IF NotInitialized(inst)
  THEN [outcome |-> "ok", v |-> ZeroStats("not_initialized"), calls |-> 0]
  ELSE LET n1 == CollectionCount(st, inst.resume_collection, "resumes", f = 1)
           n2 == CollectionCount(st, inst.jd_collection, "job_descriptions", f = 2)
           n3 == CollectionCount(st, inst.knowledge_collection, "screening_knowledge", f = 3)
           n4 == CollectionCount(st, inst.resume_collection, "resumes", f = 4)
           n5 == CollectionCount(st, inst.jd_collection, "job_descriptions", f = 5)
           n6 == CollectionCount(st, inst.knowledge_collection, "screening_knowledge", f = 6)
       IN IF ~n1.ok THEN [outcome |-> "ok", v |-> ZeroStats("error"), calls |-> 1]
          ELSE IF ~n2.ok THEN [outcome |-> "ok", v |-> ZeroStats("error"), calls |-> 2]
          ELSE IF ~n3.ok THEN [outcome |-> "ok", v |-> ZeroStats("error"), calls |-> 3]
          ELSE IF ~n4.ok THEN [outcome |-> "ok", v |-> ZeroStats("error"), calls |-> 4]
          ELSE IF ~n5.ok THEN [outcome |-> "ok", v |-> ZeroStats("error"), calls |-> 5]
          ELSE IF ~n6.ok THEN [outcome |-> "ok", v |-> ZeroStats("error"), calls |-> 6]
          ELSE [outcome |-> "ok", calls |-> 6,
                v |-> [resumes_count |-> n1.v, jobs_count |-> n2.v, knowledge_count |-> n3.v,
                       total_embeddings |-> n4.v + n5.v + n6.v, status |-> "initialized"]]

(***************************************************************************)
(* batch_semantic_analysis and its parts.                                  *)
(***************************************************************************)
\* _generate_recommendations
generate_recommendations(match_result, insights) ==
  (IF FLt(match_result.match_score, Num(30, 1))
     THEN <<"Low match score - consider if this role is the right fit">>
   ELSE IF FLt(match_result.match_score, Num(60, 1))
     THEN <<"Moderate match - review specific skill gaps">>
   ELSE <<"Strong match - proceed with detailed evaluation">>)
  \o (IF insights.skill_insights # <<>>
        THEN <<"Focus on technical skill alignment with role requirements">> ELSE <<>>)
  \o (IF insights.experience_insights # <<>>
        THEN <<"Evaluate experience quality and relevance to position">> ELSE <<>>)
  \o (IF insights.red_flags_insights # <<>>
        THEN <<"Review for potential red flags or inconsistencies">> ELSE <<>>)

RECURSIVE Reversed(_)
Reversed(s) == IF s = <<>> THEN <<>> ELSE Append(Reversed(Tail(s)), Head(s))

\* the comparison list.sort makes between two results: key(x) < key(y)
KeyLt(x, y) == FLt(x.overall_score, y.overall_score)

\* count_run of list.sort: the length of the run the list starts with, and
\* whether it is a strictly descending one
CountRun(s) ==
  IF Len(s) <= 1 THEN [n |-> Len(s), descending |-> FALSE]
  ELSE LET desc == KeyLt(s[2], s[1])
           n == CHOOSE m \in 2..Len(s) :
                  /\ \A i \in 2..m : KeyLt(s[i], s[i - 1]) = desc
                  /\ (m = Len(s) \/ KeyLt(s[m + 1], s[m]) # desc)
       IN [n |-> n, descending |-> desc]

RECURSIVE BinaryPosition(_, _, _, _)
\* binarysort's search for the place of pivot in s[l..r-1]
BinaryPosition(s, pivot, l, r) ==
  IF l >= r THEN l
  ELSE LET p == l + ((r - l) \div 2)
       IN IF KeyLt(pivot, s[p]) THEN BinaryPosition(s, pivot, l, p)
          ELSE BinaryPosition(s, pivot, p + 1, r)

RECURSIVE BinarySort(_, _)
\* binarysort: s[1..start-1] is sorted; insert s[start..] one by one
BinarySort(s, start) ==
  IF start > Len(s) THEN s
  ELSE LET pos == BinaryPosition(s, s[start], 1, start)
           moved == SubSeq(s, 1, pos - 1) \o <<s[start]>> \o SubSeq(s, pos, start - 1)
                    \o SubSeq(s, start + 1, Len(s))
       IN BinarySort(moved, start + 1)

\* results.sort(key=..., reverse=True) for a list shorter than 64: the list
\* is reversed, its first run is found (and reversed if descending), the
\* rest is inserted by binary insertion, and the list is reversed again
SortDescending(s) ==
  LET r == Reversed(s)
      run == CountRun(r)
      head == IF run.descending
              THEN Reversed(SubSeq(r, 1, run.n)) \o SubSeq(r, run.n + 1, Len(r))
              ELSE r
  IN IF Len(s) < 2 THEN s ELSE Reversed(BinarySort(head, run.n + 1))

\* what the loop of batch_semantic_analysis computes for a resume with text
\* t: both reads depend on the resume through its text alone
AnalyseText(inst, st, t, jt) ==
  [text |-> t,
   match_result |-> semantic_resume_match(inst, st, t, jt, 0).v,
   insights |-> get_resume_insights(inst, st, t, 0).v]

\* the analyses of all texts against the job description jt
Analyses(inst, st, jt) == {AnalyseText(inst, st, t, jt) : t \in Texts}

RECURSIVE AnalyseAll(_, _)
\* the loop of batch_semantic_analysis: one result per resume, in input order
AnalyseAll(analyses, resumes) ==
  IF resumes = <<>> THEN <<>>
  ELSE LET a == CHOOSE x \in analyses : x.text = Head(resumes).text
       IN <<[resume_id |-> Head(resumes).id,
             overall_score |-> a.match_result.match_score,
             recommendations |-> generate_recommendations(a.match_result, a.insights)]>>
          \o AnalyseAll(analyses, Tail(resumes))

\* batch_semantic_analysis, given the analyses of the texts
batch_semantic_analysis(analyses, resumes) ==
  [outcome |-> "ok", v |-> SortDescending(AnalyseAll(analyses, resumes))]

(***************************************************************************)
(* The state machine.  ret records the last call: the operation, whether   *)
(* the instance was ready when it was made, its arguments, the external    *)
(* call chosen to raise, how it ended ("ok": returned, "raise": raised)    *)
(* and what it returned.                                                   *)
(***************************************************************************)
\* the callers of the process that run along with the calls above; a caller
\* is between calls, or at a place inside get_database_stats or
\* get_rag_system
Threads == {"t1", "t2", "t3"}

NoCalls == [t \in Threads |-> [pc |-> "idle"]]

Init ==
  /\ store = [c \in Collections |-> NoCollection]
  /\ rag_system = NoInstance
  /\ ret = [op |-> "none"]
  /\ threads = NoCalls

Ready == rag_system.initialized = "True"

\* no call is in progress: the caller has taken the result of the last one
Idle == ret.op = "none"

\* get_rag_system()
\* a get_rag_system that finds no instance whatever the global holds
C17_NeverFound(inst) == TRUE

\* `rag_system is None`
IsNone(inst) == ~inst.constructed

GetRagSystem ==
  /\ Idle
  /\ UNCHANGED threads
  /\ \E f \in 0..5, g \in SeedFailures :
    /\ IF IsNone(rag_system)
         THEN LET r == Construct(store, f, g)
              IN /\ (f # 0 => g = 0)
                 /\ rag_system' = [r.inst EXCEPT !.instance = 1]
                 /\ store' = r.st
                 /\ ret' = [op |-> "get_rag_system", constructs |-> TRUE, fail |-> f,
                            seedfail |-> g, seeding |-> r.seeding, outcome |-> r.outcome]
         ELSE /\ f = 0 /\ g = 0
              /\ UNCHANGED <<rag_system, store>>
              /\ ret' = [op |-> "get_rag_system", constructs |-> FALSE, fail |-> 0,
                         seedfail |-> 0, seeding |-> "not reached", outcome |-> "ok"]

\* the process ends and a new one starts: the module global is None again,
\* the persistent store keeps its contents
ProcessRestart ==
  /\ Idle /\ rag_system.constructed
  /\ threads' = NoCalls
  /\ rag_system' = NoInstance
  /\ UNCHANGED store
  /\ ret' = [op |-> "restart"]

\* the caller takes the value the call returned (or the exception it raised)
\* and goes on
Return ==
  /\ ~Idle
  /\ ret' = [op |-> "none"]
  /\ UNCHANGED <<store, rag_system, threads>>

\* a call is made with a failing external call only on a ready instance
\* (a degraded one returns before it makes any)
Fails(f) == f = 0 \/ Ready

AddResume ==
  /\ Idle /\ rag_system.constructed
  /\ UNCHANGED threads
  /\ \E id \in ResumeIds, t \in StoredTexts, f \in 0..2 :
    /\ Fails(f)
    /\ \E r \in {add_resume(rag_system, store, id, t, f)} :
      /\ store' = r.st
      /\ UNCHANGED rag_system
      /\ ret' = [op |-> "add_resume", ready |-> Ready, id |-> id, text |-> t, fail |-> f,
                 outcome |-> r.outcome, calls |-> r.calls]

AddJobDescription ==
  /\ Idle /\ rag_system.constructed
  /\ UNCHANGED threads
  /\ \E id \in JobIds, t \in StoredTexts, f \in 0..2 :
    /\ Fails(f)
    /\ \E r \in {add_job_description(rag_system, store, id, t, f)} :
      /\ store' = r.st
      /\ UNCHANGED rag_system
      /\ ret' = [op |-> "add_job_description", ready |-> Ready, id |-> id, text |-> t,
                 fail |-> f, outcome |-> r.outcome, calls |-> r.calls]

ClearDatabase ==
  /\ Idle /\ rag_system.constructed
  /\ UNCHANGED threads
  /\ \E f \in 0..6, g \in SeedFailures :
    /\ Fails(f) /\ Fails(g)
    /\ \E r \in {clear_database(rag_system, store, f, g)} :
      /\ (f # 0 => g = 0)
      /\ store' = r.st
      /\ rag_system' = r.inst
      /\ ret' = [op |-> "clear_database", ready |-> Ready, fail |-> f, seedfail |-> g,
                 outcome |-> r.outcome]

\* a call of _initialize_knowledge_base on the instance (the knowledge-seed
\* step on its own)
SeedKnowledge ==
  /\ Idle /\ rag_system.constructed
  /\ UNCHANGED threads
  /\ \E g \in SeedFailures :
    /\ Fails(g)
    /\ \E r \in {InitializeKnowledgeBase(rag_system, store, g)} :
      /\ store' = r.st
      /\ UNCHANGED rag_system
      /\ ret' = [op |-> "_initialize_knowledge_base", ready |-> Ready, seedfail |-> g,
                 outcome |-> r.outcome]

SearchSimilarResumes ==
  /\ Idle /\ rag_system.constructed
  /\ UNCHANGED threads
  /\ \E q \in Texts, k \in 1..MaxK, f \in 0..2 :
    /\ Fails(f)
    /\ \E r \in {search_similar_resumes(rag_system, store, q, k, f)} :
      /\ UNCHANGED <<store, rag_system>>
      /\ ret' = [op |-> "search_similar_resumes", ready |-> Ready, query |-> q, k |-> k,
                 fail |-> f, outcome |-> r.outcome, v |-> r.v, calls |-> r.calls]

SearchSimilarJobs ==
  /\ Idle /\ rag_system.constructed
  /\ UNCHANGED threads
  /\ \E q \in Texts, k \in 1..MaxK, f \in 0..2 :
    /\ Fails(f)
    /\ \E r \in {search_similar_jobs(rag_system, store, q, k, f)} :
      /\ UNCHANGED <<store, rag_system>>
      /\ ret' = [op |-> "search_similar_jobs", ready |-> Ready, query |-> q, k |-> k,
                 fail |-> f, outcome |-> r.outcome, v |-> r.v, calls |-> r.calls]

\* a knowledge read that empties the knowledge collection when a call it
\* makes fails
C19_FailedReadResetsKnowledge ==
  /\ Idle /\ rag_system.constructed
  /\ UNCHANGED threads
  /\ \E q \in {QMatch, QSkills, QExperience, QRedFlags, QIndustry}, k \in 1..MaxK, f \in 0..2 :
    /\ Fails(f)
    /\ \E r \in {get_relevant_knowledge(rag_system, store, q, k, f)} :
      /\ store' = IF f = 0 THEN store
                  ELSE [store EXCEPT !["screening_knowledge"].docs = {}]
      /\ UNCHANGED rag_system
      /\ ret' = [op |-> "get_relevant_knowledge", ready |-> Ready, query |-> q, k |-> k,
                 fail |-> f, outcome |-> r.outcome, v |-> r.v, calls |-> r.calls]

GetRelevantKnowledge ==
  /\ Idle /\ rag_system.constructed
  /\ UNCHANGED threads
  /\ \E q \in {QMatch, QSkills, QExperience, QRedFlags, QIndustry}, k \in 1..MaxK, f \in 0..2 :
    /\ Fails(f)
    /\ \E r \in {get_relevant_knowledge(rag_system, store, q, k, f)} :
      /\ UNCHANGED <<store, rag_system>>
      /\ ret' = [op |-> "get_relevant_knowledge", ready |-> Ready, query |-> q, k |-> k,
                 fail |-> f, outcome |-> r.outcome, v |-> r.v, calls |-> r.calls]

SemanticResumeMatch ==
  /\ Idle /\ rag_system.constructed
  /\ UNCHANGED threads
  /\ \E rt \in Texts, jt \in Texts, f \in 0..11 :
    /\ Fails(f)
    /\ \E r \in {semantic_resume_match(rag_system, store, rt, jt, f)} :
      /\ UNCHANGED <<store, rag_system>>
      /\ ret' = [op |-> "semantic_resume_match", ready |-> Ready, resume_text |-> rt,
                 job_description |-> jt, fail |-> f, outcome |-> r.outcome, v |-> r.v,
                 calls |-> r.calls]

GetResumeInsights ==
  /\ Idle /\ rag_system.constructed
  /\ UNCHANGED threads
  /\ \E rt \in Texts, f \in 0..12 :
    /\ Fails(f)
    /\ \E r \in {get_resume_insights(rag_system, store, rt, f)} :
      /\ UNCHANGED <<store, rag_system>>
      /\ ret' = [op |-> "get_resume_insights", ready |-> Ready, resume_text |-> rt,
                 fail |-> f, outcome |-> r.outcome, v |-> r.v, calls |-> r.calls]

GetDatabaseStats ==
  /\ Idle /\ rag_system.constructed
  /\ UNCHANGED threads
  /\ \E f \in 0..6 :
    /\ Fails(f)
    /\ \E r \in {get_database_stats(rag_system, store, f)} :
      /\ UNCHANGED <<store, rag_system>>
      /\ ret' = [op |-> "get_database_stats", ready |-> Ready, fail |-> f,
                 outcome |-> r.outcome, v |-> r.v, calls |-> r.calls]

\* the resumes of a batch: the i-th has id BatchIds[i] and any of the texts
BatchIds == <<"b1", "b2", "b3", "b4", "b5">>

RECURSIVE BatchInputs(_)
BatchInputs(n) ==
  IF n = 0 THEN {<<>>}
  ELSE LET shorter == BatchInputs(n - 1)
       IN shorter \cup {Append(rs, [id |-> BatchIds[n], text |-> t]) :
                          rs \in {x \in shorter : Len(x) = n - 1}, t \in Texts}

BatchSemanticAnalysis ==
  /\ Idle /\ rag_system.constructed
  /\ UNCHANGED threads
  /\ \E jt \in Texts :
    \E analyses \in {Analyses(rag_system, store, jt)} :
      \E resumes \in BatchInputs(MaxBatch) :
        \E r \in {batch_semantic_analysis(analyses, resumes)} :
          /\ UNCHANGED <<store, rag_system>>
          /\ ret' = [op |-> "batch_semantic_analysis", ready |-> Ready,
                     resumes |-> resumes, job_description |-> jt,
                     outcome |-> r.outcome, v |-> r.v]

Next ==
  \/ GetRagSystem
  \/ ProcessRestart
  \/ AddResume
  \/ AddJobDescription
  \/ ClearDatabase
  \/ SeedKnowledge
  \/ SearchSimilarResumes
  \/ SearchSimilarJobs
  \/ GetRelevantKnowledge
  \/ SemanticResumeMatch
  \/ GetResumeInsights
  \/ GetDatabaseStats
  \/ BatchSemanticAnalysis
  \/ Return

\* the program from the start of a process with an empty store
Spec == Init /\ [][Next]_vars

\* the state the success path of __init__ builds: model loaded, client open,
\* the three collections opened, the knowledge base seeded, initialized True
InitReady ==
  /\ store = [c \in Collections |->
                IF c = "screening_knowledge"
                THEN [exists |-> TRUE,
                      docs |-> {[id |-> knowledge_base[i].id, text |-> knowledge_base[i].text,
                                 embedding |-> Embed(knowledge_base[i].text)] :
                                  i \in 1..KnowledgeSize}]
                ELSE EmptyCollection]
  /\ rag_system = [constructed |-> TRUE, initialized |-> "True",
                   embedding_model |-> "loaded", client |-> "open",
                   resume_collection |-> "live", jd_collection |-> "live",
                   knowledge_collection |-> "live", instance |-> 1]
  /\ ret = [op |-> "none"]
  /\ threads = NoCalls

\* the operations on an instance that is ready
SpecReady == InitReady /\ [][Next]_vars

(***************************************************************************)
(* get_database_stats, call by call, of a caller that runs along with the  *)
(* writes of the other callers.  The store serializes the single calls,    *)
(* so a step is one count(); the adds above stand for the calls the        *)
(* other callers make in between, and a step is taken once the last of     *)
(* them has returned (Return changes nothing a count() reads).  No count   *)
(* is chosen to raise here: one raises when its collection is gone.        *)
(***************************************************************************)
StatsCallers == {"t1"}

\* the handle and the collection of the n-th count() of get_database_stats
StatsHandle(inst, n) ==
  CASE n \in {1, 4} -> inst.resume_collection
    [] n \in {2, 5} -> inst.jd_collection
    [] n \in {3, 6} -> inst.knowledge_collection

StatsCollection(n) ==
  CASE n \in {1, 4} -> "resumes"
    [] n \in {2, 5} -> "job_descriptions"
    [] n \in {3, 6} -> "screening_knowledge"

\* the mapping get_database_stats builds from its six counts
StatsResult(counts) ==
  [resumes_count |-> counts[1], jobs_count |-> counts[2], knowledge_count |-> counts[3],
   total_embeddings |-> counts[4] + counts[5] + counts[6], status |-> "initialized"]

\* the call starts: the test of self.initialized
StatsBegin(t) ==
  /\ Idle /\ threads[t].pc = "idle" /\ rag_system.constructed
  /\ threads' = [threads EXCEPT ![t] =
                   IF NotInitialized(rag_system)
                   THEN [pc |-> "stats_done", v |-> ZeroStats("not_initialized")]
                   ELSE [pc |-> "stats", counts |-> <<>>]]
  /\ UNCHANGED <<store, rag_system, ret>>

\* the next count(): the sixth completes the mapping, one that raises ends
\* the call in the except branch
StatsCount(t) ==
  /\ Idle /\ threads[t].pc = "stats"
  /\ LET n == Len(threads[t].counts) + 1
         c == CollectionCount(store, StatsHandle(rag_system, n), StatsCollection(n), FALSE)
         counts == Append(threads[t].counts, c.v)
     IN threads' = [threads EXCEPT ![t] =
                      IF ~c.ok THEN [pc |-> "stats_done", v |-> ZeroStats("error")]
                      ELSE IF n = 6 THEN [pc |-> "stats_done", v |-> StatsResult(counts)]
                      ELSE [pc |-> "stats", counts |-> counts]]
  /\ UNCHANGED <<store, rag_system, ret>>

\* the caller takes the mapping the call returned
StatsTaken(t) ==
  /\ Idle /\ threads[t].pc = "stats_done"
  /\ threads' = [threads EXCEPT ![t] = [pc |-> "idle"]]
  /\ UNCHANGED <<store, rag_system, ret>>

NextStats ==
  \/ AddResume
  \/ AddJobDescription
  \/ Return
  \/ \E t \in StatsCallers : StatsBegin(t)
  \/ \E t \in StatsCallers : StatsCount(t)
  \/ \E t \in StatsCallers : StatsTaken(t)

\* a ready instance shared by a caller of get_database_stats and the
\* callers of add_resume and add_job_description
SpecStats == InitReady /\ [][NextStats]_vars

(***************************************************************************)
(* _generate_recommendations on its own: a pure function of a match        *)
(* result and insights, applied to inputs drawn from the values below.     *)
(***************************************************************************)
\* match scores: numbers around the band limits, and the nan that
\* semantic_resume_match yields for an embedding of zero norm
ScoreInputs ==
  {Num(-100, 1), Num(0, 1), Num(29, 1), Num(2999, 100), Num(30, 1), Num(31, 1),
   Num(59, 1), Num(5999, 100), Num(60, 1), Num(6001, 100), Num(96, 1), Num(100, 1), NaN}

\* an insight list: empty, or with entries
InsightInputs == {<<>>, <<"Technical skills">>, <<"Experience", "Red flags">>}

InitRecommend ==
  /\ store = [c \in Collections |-> NoCollection]
  /\ rag_system = NoInstance
  /\ threads = NoCalls
  /\ \E s \in ScoreInputs, sk \in InsightInputs, ex \in InsightInputs, rf \in InsightInputs :
       ret = [op |-> "input",
              match_result |-> [match_score |-> s],
              insights |-> [skill_insights |-> sk, experience_insights |-> ex,
                            red_flags_insights |-> rf]]

GenerateRecommendations ==
  /\ ret.op = "input"
  /\ ret' = [op |-> "_generate_recommendations", match_result |-> ret.match_result,
             insights |-> ret.insights,
             v |-> generate_recommendations(ret.match_result, ret.insights)]
  /\ UNCHANGED <<store, rag_system, threads>>

NextRecommend == GenerateRecommendations

SpecRecommend == InitRecommend /\ [][NextRecommend]_vars

(***************************************************************************)
(* The adds with their metadata argument.  A metadata value is its Python  *)
(* type and its string representation; the store takes str, int, float     *)
(* and bool values and raises on any other.  (None is left out of the      *)
(* inputs.)                                                                *)
(***************************************************************************)
ScalarTypes == {"str", "int", "float", "bool"}

MetadataValues ==
  {[type |-> "str", repr |-> "cv.pdf"], [type |-> "int", repr |-> "3"],
   [type |-> "dict", repr |-> "{'a': 1}"], [type |-> "list", repr |-> "['x', 'y']"],
   [type |-> "tuple", repr |-> "(1, 2)"]}

\* the metadata mappings callers pass: two keys, any values
MetadataInputs == [{"filename", "skills"} -> MetadataValues]

\* the store's validation of the metadata of an add
StoreAccepts(m) == \A key \in DOMAIN m : m[key].type \in ScalarTypes

\* a validation that converts mappings and leaves sequences as they are
C16_ValidateMappingsOnly(metadata_dict) ==
  [key \in DOMAIN metadata_dict |->
     IF metadata_dict[key].type = "dict"
     THEN [type |-> "str", repr |-> metadata_dict[key].repr]
     ELSE metadata_dict[key]]

\* a validation that leaves out the keys whose value is not a scalar
C21_ValidateDropsOthers(metadata_dict) ==
  [key \in {k \in DOMAIN metadata_dict :
              metadata_dict[k].type \in ScalarTypes \cup {"NoneType"}} |->
     metadata_dict[key]]

\* validate_metadata_for_chromadb: a scalar value is kept, any other value
\* becomes the string str(value)
validate_metadata_for_chromadb(metadata_dict) ==
  [key \in DOMAIN metadata_dict |->
     IF metadata_dict[key].type \in ScalarTypes \cup {"NoneType"}
     THEN metadata_dict[key]
     ELSE [type |-> "str", repr |-> metadata_dict[key].repr]]

\* collection.add(documents=[t], embeddings=[e], metadatas=[m], ids=[id])
CollectionAddWithMetadata(st, h, c, id, t, e, m, failed) ==
  IF Usable(st, h, c) /\ ~failed /\ id \notin DocIds(st[c].docs) /\ StoreAccepts(m)
  THEN [ok |-> TRUE,
        st |-> [st EXCEPT ![c].docs =
                  @ \cup {[id |-> id, text |-> t, embedding |-> e, metadata |-> m]}]]
  ELSE [ok |-> FALSE, st |-> st]

\* add_resume / add_job_description (op) with metadata m
AddWithMetadata(inst, st, op, id, t, m, f) ==
  LET c == IF op = "add_resume" THEN "resumes" ELSE "job_descriptions"
      h == IF op = "add_resume" THEN inst.resume_collection ELSE inst.jd_collection
      e == Encode(inst, t, f = 1)
      a == CollectionAddWithMetadata(st, h, c, id, t, e.v, m, f = 2)
  IN IF NotInitialized(inst) THEN [outcome |-> "ok", st |-> st]
     ELSE IF ~e.ok THEN [outcome |-> "raise", st |-> st]
     ELSE IF ~a.ok THEN [outcome |-> "raise", st |-> a.st]
     ELSE [outcome |-> "ok", st |-> a.st]

\* a caller passes its metadata to add_resume / add_job_description as it is
AddDirectly ==
  /\ Idle /\ rag_system.constructed
  /\ UNCHANGED threads
  /\ \E op \in {"add_resume", "add_job_description"}, id \in JobIds, t \in {"ta"},
        m \in MetadataInputs, f \in 0..2 :
      \E r \in {AddWithMetadata(rag_system, store, op, id, t, m, f)} :
        /\ store' = r.st
        /\ UNCHANGED rag_system
        /\ ret' = [op |-> op, via |-> "direct", ready |-> Ready, id |-> id, text |-> t,
                   metadata |-> m, fail |-> f, outcome |-> r.outcome]

\* the application's handlers: on a ready instance the metadata goes through
\* validate_metadata_for_chromadb and then to the add; what the add raises
\* is caught and printed (outcome is how the add ended)
AddFromApplication ==
  /\ Idle /\ rag_system.constructed /\ Ready
  /\ UNCHANGED threads
  /\ \E op \in {"add_resume", "add_job_description"}, id \in JobIds, t \in {"ta"},
        m \in MetadataInputs, f \in 0..2 :
      \E r \in {AddWithMetadata(rag_system, store, op, id, t,
                                validate_metadata_for_chromadb(m), f)} :
        /\ store' = r.st
        /\ UNCHANGED rag_system
        /\ ret' = [op |-> op, via |-> "application", ready |-> Ready, id |-> id,
                   text |-> t, metadata |-> m, fail |-> f, outcome |-> r.outcome]

NextMetadata ==
  \/ AddDirectly
  \/ AddFromApplication
  \/ Return

SpecMetadata == InitReady /\ [][NextMetadata]_vars

(***************************************************************************)
(* get_rag_system() called by several threads of one process, statement by *)
(* statement: the test of the global, the construction with the assignment *)
(* to the global, and the return, which reads the global again.  instance  *)
(* numbers the objects constructed in the process.                         *)
(***************************************************************************)
\* `if rag_system is None:`
GetTest(t) ==
  /\ threads[t].pc = "idle"
  /\ threads' = [threads EXCEPT ![t] =
                   [pc |-> IF IsNone(rag_system) THEN "construct" ELSE "return"]]
  /\ UNCHANGED <<store, rag_system, ret>>

\* `rag_system = ResumeRAGSystem()`
GetConstruct(t) ==
  /\ threads[t].pc = "construct"
  /\ \E f \in 0..5, g \in SeedFailures :
       /\ f # 0 => g = 0
       /\ LET r == Construct(store, f, g)
          IN /\ rag_system' = [r.inst EXCEPT !.instance = rag_system.instance + 1]
             /\ store' = r.st
  /\ threads' = [threads EXCEPT ![t] = [pc |-> "return"]]
  /\ UNCHANGED ret

\* `return rag_system`
GetReturn(t) ==
  /\ threads[t].pc = "return"
  /\ threads' = [threads EXCEPT ![t] = [pc |-> "got", v |-> rag_system.instance]]
  /\ UNCHANGED <<store, rag_system, ret>>

NextStartup ==
  \/ \E t \in Threads : GetTest(t)
  \/ \E t \in Threads : GetConstruct(t)
  \/ \E t \in Threads : GetReturn(t)

SpecStartup == Init /\ [][NextStartup]_vars

(***************************************************************************)
(* validate_metadata_for_chromadb as a function of its argument: applied   *)
(* to a mapping, and applied again to what it returned.                    *)
(***************************************************************************)
ValidateValues ==
  MetadataValues \cup
  {[type |-> "float", repr |-> "0.5"], [type |-> "bool", repr |-> "True"],
   [type |-> "NoneType", repr |-> "None"]}

\* mappings of no, one or two keys
ValidateInputs == UNION {[K -> ValidateValues] : K \in SUBSET {"filename", "skills"}}

InitValidate ==
  /\ store = [c \in Collections |-> NoCollection]
  /\ rag_system = NoInstance
  /\ threads = NoCalls
  /\ \E m \in ValidateInputs : ret = [op |-> "input", metadata_dict |-> m]

ValidateMetadata ==
  /\ ret.op = "input"
  /\ ret' = [op |-> "validate_metadata_for_chromadb", metadata_dict |-> ret.metadata_dict,
             v |-> validate_metadata_for_chromadb(ret.metadata_dict)]
  /\ UNCHANGED <<store, rag_system, threads>>

ValidateAgain ==
  /\ ret.op = "validate_metadata_for_chromadb"
  /\ ret' = [op |-> "validate twice", metadata_dict |-> ret.metadata_dict,
             once |-> ret.v, v |-> validate_metadata_for_chromadb(ret.v)]
  /\ UNCHANGED <<store, rag_system, threads>>

NextValidate ==
  \/ ValidateMetadata
  \/ ValidateAgain

SpecValidate == InitValidate /\ [][NextValidate]_vars

(***************************************************************************)
(* Seeding runs over one store, from the point where the success path of   *)
(* __init__ calls the seeder on a new store: the three collections exist   *)
(* and are empty.  Runs of the seeder on the instance, and those of the    *)
(* construction in a restarted process.  A seeding run in which no call    *)
(* fails is started again and again, a restarted process constructs its    *)
(* instance, and every call returns.                                       *)
(***************************************************************************)
InitSeeding ==
  /\ store = [c \in Collections |-> EmptyCollection]
  /\ rag_system = [constructed |-> TRUE, initialized |-> "True",
                   embedding_model |-> "loaded", client |-> "open",
                   resume_collection |-> "live", jd_collection |-> "live",
                   knowledge_collection |-> "live", instance |-> 1]
  /\ ret = [op |-> "none"]
  /\ threads = NoCalls

\* a run of the seeder in which no store call fails
SeedRun == SeedKnowledge /\ ret'.seedfail = 0

NextSeeding ==
  \/ GetRagSystem
  \/ ProcessRestart
  \/ SeedKnowledge
  \/ Return

SpecSeeding ==
  /\ InitSeeding /\ [][NextSeeding]_vars
  /\ SF_vars(SeedRun) /\ WF_vars(GetRagSystem) /\ WF_vars(Return)

(***************************************************************************)
(* Seeding runs of several threads over one store, store call by store     *)
(* call: the run a construction starts (get_or_create_collection, then the *)
(* seeder) and the run clear_database starts (three deletes, three         *)
(* creates, then the seeder), together with adds made by callers.  A       *)
(* call through the handle reaches the collection of that name when it     *)
(* exists.  Any store call may fail.                                       *)
(***************************************************************************)
Seeders == {"t1", "t2"}

\* a seeder that numbers the entry it adds by the size of the collection
C24_SeedEntryByCount(st, h, i, failed) ==
  LET n == Cardinality(st["screening_knowledge"].docs)
  IN CollectionAdd(st, h, "screening_knowledge",
                   KnowledgeIds[IF n < KnowledgeSize THEN n + 1 ELSE KnowledgeSize],
                   knowledge_base[i].text, Embed(knowledge_base[i].text), failed)

\* self.knowledge_collection.add(documents=[knowledge["text"]], ..., ids=[f"knowledge_{i}"])
SeedEntry(st, h, i, failed) ==
  CollectionAdd(st, h, "screening_knowledge", knowledge_base[i].id,
                knowledge_base[i].text, Embed(knowledge_base[i].text), failed)

\* the collection the n-th store call of clear_database names
ClearTarget(n) ==
  CASE n \in {1, 4} -> "resumes"
    [] n \in {2, 5} -> "job_descriptions"
    [] n \in {3, 6} -> "screening_knowledge"

\* a construction up to the seeder: get_or_create_collection
ConstructionSeeds(t) ==
  /\ Idle /\ threads[t].pc = "idle"
  /\ store' = [c \in Collections |-> IF store[c].exists THEN store[c] ELSE EmptyCollection]
  /\ threads' = [threads EXCEPT ![t] = [pc |-> "count"]]
  /\ UNCHANGED <<rag_system, ret>>

\* clear_database entered on the ready instance
ClearBegins(t) ==
  /\ Idle /\ threads[t].pc = "idle" /\ ~NotInitialized(rag_system)
  /\ threads' = [threads EXCEPT ![t] = [pc |-> "clear", n |-> 1]]
  /\ UNCHANGED <<store, rag_system, ret>>

\* the next delete_collection or create_collection of clear_database; an
\* exception ends the call
ClearCall(t) ==
  /\ Idle /\ threads[t].pc = "clear"
  /\ \E failed \in BOOLEAN :
       LET n == threads[t].n
           r == IF n <= 3 THEN DeleteCollection(rag_system, store, ClearTarget(n), failed)
                ELSE CreateCollection(rag_system, store, ClearTarget(n), failed)
       IN /\ store' = r.st
          /\ threads' = [threads EXCEPT ![t] =
                           IF ~r.ok THEN [pc |-> "idle"]
                           ELSE IF n = 6 THEN [pc |-> "count"]
                           ELSE [pc |-> "clear", n |-> n + 1]]
  /\ UNCHANGED <<rag_system, ret>>

\* `if self.knowledge_collection.count() == 0:`
SeedCount(t) ==
  /\ Idle /\ threads[t].pc = "count"
  /\ \E failed \in BOOLEAN :
       LET n == CollectionCount(store, rag_system.knowledge_collection,
                                "screening_knowledge", failed)
       IN threads' = [threads EXCEPT ![t] =
                        IF n.ok /\ n.v = 0 THEN [pc |-> "seed", i |-> 1]
                        ELSE [pc |-> "idle"]]
  /\ UNCHANGED <<store, rag_system, ret>>

\* one turn of the loop over knowledge_base; an exception ends the run
SeedAdd(t) ==
  /\ Idle /\ threads[t].pc = "seed"
  /\ \E failed \in BOOLEAN :
       LET i == threads[t].i
           a == SeedEntry(store, rag_system.knowledge_collection, i, failed)
       IN /\ store' = a.st
          /\ threads' = [threads EXCEPT ![t] =
                           IF a.ok /\ i < KnowledgeSize THEN [pc |-> "seed", i |-> i + 1]
                           ELSE [pc |-> "idle"]]
  /\ UNCHANGED <<rag_system, ret>>

\* add_resume or add_job_description by a caller, from call to return
CallerAdds ==
  /\ Idle
  /\ \E op \in {"add_resume", "add_job_description"}, f \in 0..2 :
       store' = IF op = "add_resume"
                THEN add_resume(rag_system, store, "r1", "ta", f).st
                ELSE add_job_description(rag_system, store, "r1", "ta", f).st
  /\ UNCHANGED <<rag_system, ret, threads>>

NextKnowledge ==
  \/ \E t \in Seeders : ConstructionSeeds(t)
  \/ \E t \in Seeders : ClearBegins(t)
  \/ \E t \in Seeders : ClearCall(t)
  \/ \E t \in Seeders : SeedCount(t)
  \/ \E t \in Seeders : SeedAdd(t)
  \/ CallerAdds

SpecKnowledge == InitSeeding /\ [][NextKnowledge]_vars

(***************************************************************************)
(* The properties of the orchestrator, each against the state machine.     *)
(***************************************************************************)
KnowledgeCount == Cardinality(store["screening_knowledge"].docs)

\* a construction that ran with every external step succeeding
ConstructedCleanly ==
  ret.op = "get_rag_system" /\ ret.constructs /\ ret.fail = 0 /\ ret.seedfail = 0

\* C1: when the embedding model loads, the client opens and the three
\* collections are opened, and no store call of the seeding fails, the
\* constructor ends ready (initialized = True) with the knowledge
\* collection seeded.
C1_ConstructionEndsReady ==
  ConstructedCleanly
    => (rag_system.initialized = "True" /\ KnowledgeCount = KnowledgeSize)

\* the construction in which nothing external failed, ended degraded
C1_CleanConstructionDegraded ==
  /\ ConstructedCleanly
  /\ ret.seeding = "raise"
  /\ rag_system.initialized = "False"
  /\ KnowledgeCount = 0

ReadOps ==
  {"search_similar_resumes", "search_similar_jobs", "get_relevant_knowledge",
   "semantic_resume_match", "get_resume_insights", "get_database_stats"}

\* the zero-value shape each read documents for degraded mode
DegradedValue(op) ==
  CASE op \in {"search_similar_resumes", "search_similar_jobs", "get_relevant_knowledge"} -> <<>>
    [] op = "semantic_resume_match" ->
         [semantic_similarity |-> Num(0, 1), match_score |-> Num(0, 1),
          relevant_knowledge |-> <<>>, similar_resumes |-> <<>>, similar_jobs |-> <<>>,
          analysis_context |-> [total_resumes_in_db |-> 0, total_jobs_in_db |-> 0,
                                knowledge_items |-> 0]]
    [] op = "get_resume_insights" ->
         [skill_insights |-> <<>>, experience_insights |-> <<>>,
          red_flags_insights |-> <<>>, similar_resumes |-> <<>>, industry_insights |-> <<>>,
          database_context |-> [total_resumes |-> 0, total_jobs |-> 0]]
    [] op = "get_database_stats" ->
         [resumes_count |-> 0, jobs_count |-> 0, knowledge_count |-> 0,
          total_embeddings |-> 0, status |-> "not_initialized"]

\* C2: in degraded mode every read returns exactly its zero-value shape
\* and makes no call into the store or the embedding model.
C2_DegradedReadsReturnZeroValue ==
  (ret.op \in ReadOps /\ ~ret.ready)
    => (ret.outcome = "ok" /\ ret.calls = 0 /\ ret.v = DegradedValue(ret.op))

\* a degraded get_database_stats has answered "not_initialized" while the
\* collections exist in the store
C2_DegradedStatsAnswered ==
  /\ ret.op = "get_database_stats" /\ ~ret.ready
  /\ ret.v.status = "not_initialized"
  /\ store["resumes"].exists

WriteOps == {"add_resume", "add_job_description", "clear_database"}

\* C3: in degraded mode add_resume, add_job_description and clear_database
\* return normally and leave the three collections and the instance (its
\* initialized flag included) as they were.
C3_DegradedWritesAreNoOps ==
  [][(ret'.op \in WriteOps /\ ~ret'.ready)
       => (ret'.outcome = "ok" /\ store' = store /\ rag_system' = rag_system)]_vars

\* a degraded add_resume has returned, the resumes collection existing and
\* empty
C3_DegradedAddReturned ==
  /\ ret.op = "add_resume" /\ ~ret.ready
  /\ ret.outcome = "ok"
  /\ store["resumes"] = EmptyCollection
  /\ rag_system.initialized = "False"

\* C4: when a step of the construction raises (the model load, the client,
\* one of the three collections, the seeding), the constructor returns and
\* leaves initialized = False and the handles, the client and the model
\* None.
C4_FailedConstructionIsDegraded ==
  (ret.op = "get_rag_system" /\ ret.constructs /\ (ret.fail # 0 \/ ret.seeding = "raise"))
    => /\ ret.outcome = "ok"
       /\ rag_system.initialized = "False"
       /\ rag_system.resume_collection = "None"
       /\ rag_system.jd_collection = "None"
       /\ rag_system.knowledge_collection = "None"
       /\ rag_system.client = "None"
       /\ rag_system.embedding_model = "None"

\* the construction failed at the third collection, the first two created
C4_FailedAtThirdCollection ==
  /\ ret.op = "get_rag_system" /\ ret.constructs /\ ret.fail = 5
  /\ store["resumes"].exists /\ store["job_descriptions"].exists
  /\ ~store["screening_knowledge"].exists
  /\ rag_system.initialized = "False"

AddOps == {"add_resume", "add_job_description"}

\* the collection an add operation inserts into
Target(op) == IF op = "add_resume" THEN "resumes" ELSE "job_descriptions"

\* C5: on a ready instance, when the store rejects the insert (the id is in
\* the collection already, or the add raises otherwise), add_resume /
\* add_job_description raises and the count of the collection is what it
\* was.
C5_RejectedInsertRaises ==
  [][(/\ ret'.op \in AddOps /\ ret'.ready
      /\ ret'.fail # 1
      /\ (ret'.fail = 2 \/ ret'.id \in DocIds(store[Target(ret'.op)].docs)))
       => /\ ret'.outcome = "raise"
          /\ Cardinality(store'[Target(ret'.op)].docs)
               = Cardinality(store[Target(ret'.op)].docs)]_vars

\* add_resume has raised on an id the collection holds, no call chosen to
\* fail
C5_DuplicateIdRaised ==
  /\ ret.op = "add_resume" /\ ret.ready /\ ret.fail = 0
  /\ ret.outcome = "raise"
  /\ ret.id \in DocIds(store["resumes"].docs)

\* the empty/zero value each read documents for a failure ("error" is the
\* status of get_database_stats)
ErrorValue(op) ==
  IF op = "get_database_stats"
  THEN [resumes_count |-> 0, jobs_count |-> 0, knowledge_count |-> 0,
        total_embeddings |-> 0, status |-> "error"]
  ELSE DegradedValue(op)

\* C6, as stated: on a ready instance, whenever the store or the embedding
\* model raises during a read, the read returns (does not raise) its
\* documented empty/zero value.
C6_FailedReadReturnsZeroValue ==
  (ret.op \in ReadOps /\ ret.ready /\ ret.fail # 0)
    => (ret.outcome = "ok" /\ ret.v = ErrorValue(ret.op))

\* the calls a read makes itself, as against those its nested reads make
DirectCalls(op) ==
  CASE op = "semantic_resume_match" -> {1, 2, 9, 10, 11}
    [] op = "get_resume_insights" -> {11, 12}
    [] op = "get_database_stats" -> 1..6
    [] OTHER -> {1, 2}

\* the field of the result a nested read fills, by the call that failed
NestedField(op, f, v) ==
  IF op = "semantic_resume_match"
  THEN (CASE f \in {3, 4} -> v.relevant_knowledge
          [] f \in {5, 6} -> v.similar_resumes
          [] f \in {7, 8} -> v.similar_jobs)
  ELSE (CASE f \in {1, 2} -> v.skill_insights
          [] f \in {3, 4} -> v.experience_insights
          [] f \in {5, 6} -> v.red_flags_insights
          [] f \in {7, 8} -> v.similar_resumes
          [] f \in {9, 10} -> v.industry_insights)

\* C6, amended: on a ready instance no read raises; when a call the read
\* makes itself raises it returns its documented empty/zero value, and when
\* the call that raises is one a nested read makes (the searches inside
\* semantic_resume_match and get_resume_insights), the field that nested
\* read fills is empty.
C6_FailedReadIsContained ==
  (ret.op \in ReadOps /\ ret.ready)
    => /\ ret.outcome = "ok"
       /\ (ret.fail # 0 /\ ret.fail \in DirectCalls(ret.op)) => ret.v = ErrorValue(ret.op)
       /\ (ret.fail # 0 /\ ret.fail \notin DirectCalls(ret.op))
            => NestedField(ret.op, ret.fail, ret.v) = <<>>

\* semantic_resume_match has returned a similarity and counts although the
\* query of its knowledge lookup raised
C6_NestedFailureKeepsScore ==
  /\ ret.op = "semantic_resume_match" /\ ret.ready /\ ret.fail = 4
  /\ ret.v.relevant_knowledge = <<>>
  /\ ret.v.match_score = Num(2400, 25)
  /\ ret.v.analysis_context.knowledge_items = KnowledgeSize

\* C7: the seed step, however often it runs, never leaves more than the 10
\* curated entries: run on an empty collection with no store call failing
\* it leaves 10, and run on a collection that has entries it leaves the
\* collection as it is.
C7_SeedingIsIdempotent ==
  [][/\ Cardinality(store'["screening_knowledge"].docs) <= KnowledgeSize
     /\ (ret'.op = "_initialize_knowledge_base" /\ ret'.ready)
          => /\ (store["screening_knowledge"].docs # {} => store' = store)
             /\ (/\ store["screening_knowledge"] = EmptyCollection
                 /\ ret'.seedfail = 0)
                  => Cardinality(store'["screening_knowledge"].docs) = KnowledgeSize]_vars

\* a seed step has run on the seeded collection and left the 10 entries
C7_SeededTwice ==
  /\ ret.op = "_initialize_knowledge_base" /\ ret.ready /\ ret.seedfail = 0
  /\ KnowledgeCount = KnowledgeSize

\* what get_database_stats returns in this state when no count raises
StatsNow == get_database_stats(rag_system, store, 0).v

ClearedStats ==
  [resumes_count |-> 0, jobs_count |-> 0, knowledge_count |-> KnowledgeSize,
   total_embeddings |-> KnowledgeSize, status |-> "initialized"]

C9_ZeroNormGivesZero ==
  (/\ ret.op = "semantic_resume_match" /\ ret.ready /\ ret.fail = 0
   /\ (Norm(Embed(ret.resume_text)) = 0 \/ Norm(Embed(ret.job_description)) = 0))
    => (FEq(ret.v.semantic_similarity, Zero) /\ FEq(ret.v.match_score, Zero))

\* semantic_resume_match has returned nan for a resume text of zero norm
C9_ZeroNormGaveNaN ==
  /\ ret.op = "semantic_resume_match" /\ ret.ready /\ ret.fail = 0
  /\ Norm(Embed(ret.resume_text)) = 0
  /\ ret.v.semantic_similarity = NaN
  /\ ret.v.match_score = NaN

\* the place of the resume with this id in the input of the batch
InputIndex(resumes, id) == CHOOSE i \in 1..Len(resumes) : resumes[i].id = id

\* C10: batch_semantic_analysis returns one result per input resume (a
\* permutation of the inputs by resume_id), no result has a lower
\* overall_score than one after it, and results of equal overall_score
\* are in the order of their resumes in the input.
C10_BatchIsRanked ==
  ret.op = "batch_semantic_analysis"
    => /\ Len(ret.v) = Len(ret.resumes)
       /\ {ret.v[i].resume_id : i \in 1..Len(ret.v)}
            = {ret.resumes[i].id : i \in 1..Len(ret.resumes)}
       /\ \A i, j \in 1..Len(ret.v) :
            i < j => /\ ~FLt(ret.v[i].overall_score, ret.v[j].overall_score)
                     /\ FEq(ret.v[i].overall_score, ret.v[j].overall_score)
                          => InputIndex(ret.resumes, ret.v[i].resume_id)
                               < InputIndex(ret.resumes, ret.v[j].resume_id)

\* a batch has come back with a lower score ahead of a higher one, a nan
\* score between them
C10_BatchOutOfOrder ==
  /\ ret.op = "batch_semantic_analysis" /\ ret.ready
  /\ Len(ret.v) = 3
  /\ ret.v[2].overall_score = NaN
  /\ FLt(ret.v[1].overall_score, ret.v[3].overall_score)

\* the hits are records of collection c, each with its distance to query q
HitsAreRecordsOf(hits, c, q) ==
  \A i \in 1..Len(hits) :
    \E d \in store[c].docs :
      /\ d.id = hits[i].id
      /\ d.text = hits[i].text
      /\ hits[i].distance = Distance(Embed(q), d.embedding)

\* C11: after any sequence of adds, seedings and clears, every hit of
\* search_similar_resumes is a record the resumes collection holds and
\* every hit of search_similar_jobs is a record the job_descriptions
\* collection holds, also when ids or texts of the collections coincide.
C11_SearchStaysInItsCollection ==
  /\ ret.op = "search_similar_resumes" => HitsAreRecordsOf(ret.v, "resumes", ret.query)
  /\ ret.op = "search_similar_jobs" => HitsAreRecordsOf(ret.v, "job_descriptions", ret.query)

\* a resume search has returned a hit whose id the job_descriptions
\* collection holds too, with another text
C11_HitWithSharedId ==
  /\ ret.op = "search_similar_resumes" /\ ret.ready
  /\ Len(ret.v) >= 1
  /\ \E d \in store["job_descriptions"].docs :
       d.id = ret.v[1].id /\ d.text # ret.v[1].text

Min(a, b) == IF a <= b THEN a ELSE b

SearchOps == {"search_similar_resumes", "search_similar_jobs", "get_relevant_knowledge"}

\* the collection a search operation queries
Queried(op) ==
  CASE op = "search_similar_resumes" -> "resumes"
    [] op = "search_similar_jobs" -> "job_descriptions"
    [] op = "get_relevant_knowledge" -> "screening_knowledge"

\* the distance of the i-th result of the search in ret to its query
ResultDistance(i) ==
  IF ret.op = "get_relevant_knowledge"
  THEN Distance(Embed(ret.query), Embed(ret.v[i]))
  ELSE ret.v[i].distance

\* C12: on a ready instance with no call failing, a search with k returns
\* min(k, count of its collection) hits in non-decreasing distance to the
\* query ([] on an empty collection), and with the 10 seeded entries
\* get_relevant_knowledge(q, 2) returns 2 non-empty texts.
C12_SearchReturnsNearestK ==
  (ret.op \in SearchOps /\ ret.ready /\ ret.fail = 0)
    => /\ ret.outcome = "ok"
       /\ Len(ret.v) = Min(ret.k, Cardinality(store[Queried(ret.op)].docs))
       /\ \A i \in 1..(Len(ret.v) - 1) : ResultDistance(i) <= ResultDistance(i + 1)
       /\ ret.op = "get_relevant_knowledge" => \A i \in 1..Len(ret.v) : ret.v[i] # ""
       /\ (ret.op = "get_relevant_knowledge" /\ ret.k = 2 /\ KnowledgeCount = KnowledgeSize)
            => Len(ret.v) = 2

\* get_relevant_knowledge("technical skills evaluation", 2) has returned 2
\* texts of the 10 seeded, the nearer first
C12_TwoOfTenReturned ==
  /\ ret.op = "get_relevant_knowledge" /\ ret.ready /\ ret.fail = 0
  /\ ret.query = QSkills /\ ret.k = 2
  /\ KnowledgeCount = KnowledgeSize
  /\ Len(ret.v) = 2
  /\ ResultDistance(1) < ResultDistance(2)

\* C13: in every result of get_database_stats, total_embeddings is
\* resumes_count + jobs_count + knowledge_count of that result, whatever
\* add_resume / add_job_description / clear_database calls of other
\* callers run along with the call.
C13_TotalIsSumOfCounts ==
  \A t \in Threads :
    threads[t].pc = "stats_done"
      => threads[t].v.total_embeddings
           = threads[t].v.resumes_count + threads[t].v.jobs_count
               + threads[t].v.knowledge_count

\* a result with status "initialized" whose total counts a resume that its
\* resumes_count does not
C13_TotalCountsLaterResume ==
  \E t \in Threads :
    /\ threads[t].pc = "stats_done"
    /\ threads[t].v.status = "initialized"
    /\ threads[t].v.resumes_count = 0
    /\ threads[t].v.jobs_count = 0
    /\ threads[t].v.knowledge_count = KnowledgeSize
    /\ threads[t].v.total_embeddings = KnowledgeSize + 1

FLe(x, y) == FLt(x, y) \/ FEq(x, y)

LowFit == "Low match score - consider if this role is the right fit"
ModerateFit == "Moderate match - review specific skill gaps"
StrongFit == "Strong match - proceed with detailed evaluation"

\* the lines the non-empty insight categories call for, in their order
InsightLines(insights) ==
  (IF insights.skill_insights # <<>>
     THEN <<"Focus on technical skill alignment with role requirements">> ELSE <<>>)
  \o (IF insights.experience_insights # <<>>
        THEN <<"Evaluate experience quality and relevance to position">> ELSE <<>>)
  \o (IF insights.red_flags_insights # <<>>
        THEN <<"Review for potential red flags or inconsistencies">> ELSE <<>>)

\* C14: _generate_recommendations returns one score-band line (low-fit
\* exactly when match_score < 30, moderate-fit exactly when
\* 30 <= match_score < 60, strong-fit exactly when match_score >= 60),
\* then one line per non-empty insight category among skills, experience,
\* red flags, in that order, and nothing else.
C14_RecommendationsFollowBands ==
  ret.op = "_generate_recommendations"
    => LET s == ret.match_result.match_score
       IN /\ Len(ret.v) >= 1
          /\ ret.v[1] \in {LowFit, ModerateFit, StrongFit}
          /\ ret.v[1] = LowFit <=> FLt(s, Num(30, 1))
          /\ ret.v[1] = ModerateFit <=> (FLe(Num(30, 1), s) /\ FLt(s, Num(60, 1)))
          /\ ret.v[1] = StrongFit <=> FLe(Num(60, 1), s)
          /\ Tail(ret.v) = InsightLines(ret.insights)

\* the strong-fit line has been returned for a score that is nan
C14_StrongFitForNaN ==
  /\ ret.op = "_generate_recommendations"
  /\ ret.match_result.match_score = NaN
  /\ ret.v[1] = StrongFit

\* what semantic_resume_match returns in this state for the texts of the
\* call in ret, swapped
SwappedMatch ==
  semantic_resume_match(rag_system, store, ret.job_description, ret.resume_text, 0).v

NonScalar(m) == \E key \in DOMAIN m : m[key].type \notin ScalarTypes

\* the record with this id holds metadata m with every non-scalar value
\* replaced by the string of its representation
StoredFlattened(st, c, id, m) ==
  \E d \in st[c].docs :
    /\ d.id = id
    /\ DOMAIN d.metadata = DOMAIN m
    /\ \A key \in DOMAIN m :
         /\ d.metadata[key].repr = m[key].repr
         /\ d.metadata[key].type =
              (IF m[key].type \in ScalarTypes THEN m[key].type ELSE "str")

\* C16 as stated: in the ready state an add_resume or add_job_description
\* call whose metadata contains a non-scalar value (no store failure, new
\* id) returns normally and stores the record with that value as a string.
C16_NonScalarMetadataIsStored ==
  [][(/\ ret'.op \in AddOps /\ ret'.ready /\ ret'.fail = 0
      /\ ret'.via = "direct"
      /\ NonScalar(ret'.metadata)
      /\ ret'.id \notin DocIds(store[Target(ret'.op)].docs))
       => /\ ret'.outcome = "ok"
          /\ StoredFlattened(store', Target(ret'.op), ret'.id, ret'.metadata)]_vars

\* C16 amended: the conversion is done by validate_metadata_for_chromadb,
\* which the application applies before each add: an add made that way (no
\* store failure, new id) stores the record with every non-scalar value as
\* the string of its representation and does not raise.  add_resume and
\* add_job_description pass their metadata on as it is: called with a
\* non-scalar value they raise the store's rejection and store nothing.
C16_ApplicationFlattensMetadata ==
  [][(/\ ret'.op \in AddOps /\ ret'.ready /\ ret'.fail = 0
      /\ ret'.id \notin DocIds(store[Target(ret'.op)].docs))
       => /\ ret'.via = "application"
             => /\ ret'.outcome = "ok"
                /\ StoredFlattened(store', Target(ret'.op), ret'.id, ret'.metadata)
          /\ (ret'.via = "direct" /\ NonScalar(ret'.metadata))
             => /\ ret'.outcome = "raise"
                /\ store' = store]_vars

\* the application added a resume whose skills were a list, and the record
\* holds them as a string
C16_ListStoredAsString ==
  /\ ret.op = "add_resume" /\ ret.via = "application" /\ ret.fail = 0
  /\ ret.outcome = "ok"
  /\ ret.metadata["skills"].type = "list"
  /\ \E d \in store["resumes"].docs :
       d.id = ret.id /\ d.metadata["skills"] = [type |-> "str", repr |-> "['x', 'y']"]

(***************************************************************************)
(* C17                                                                     *)
(***************************************************************************)
\* C17: within one process the first get_rag_system() call constructs the
\* instance and every later call returns that instance without constructing
\* or changing anything; no operation turns a degraded instance ready.
C17_InitializedOnce ==
  [][/\ (ret'.op = "get_rag_system" /\ ~rag_system.constructed)
          => /\ ret'.constructs
             /\ rag_system'.constructed /\ rag_system'.instance = 1
     /\ (ret'.op = "get_rag_system" /\ rag_system.constructed)
          => /\ ~ret'.constructs
             /\ rag_system' = rag_system /\ store' = store
     /\ (rag_system.initialized = "False" /\ ret'.op # "restart")
          => rag_system'.initialized = "False"]_vars

\* a later get_rag_system() call returned the degraded first instance
C17_LaterCallGotFirstInstance ==
  /\ ret.op = "get_rag_system" /\ ~ret.constructs
  /\ rag_system.instance = 1 /\ rag_system.initialized = "False"

(***************************************************************************)
(* C18                                                                     *)
(***************************************************************************)
\* C18: when several callers invoke get_rag_system() concurrently while no
\* instance exists, at most one ResumeRAGSystem is constructed and all the
\* callers receive the same instance.
C18_OneInstanceForAllCallers ==
  /\ rag_system.instance <= 1
  /\ \A t1, t2 \in Threads :
       (threads[t1].pc = "got" /\ threads[t2].pc = "got")
         => threads[t1].v = threads[t2].v

\* two callers hold different instances
C18_TwoCallersTwoInstances ==
  /\ threads["t1"].pc = "got" /\ threads["t2"].pc = "got"
  /\ threads["t1"].v = 1 /\ threads["t2"].v = 2

(***************************************************************************)
(* C19                                                                     *)
(***************************************************************************)
\* C19: a call of a read operation leaves the contents of the three
\* collections and the instance (its initialized flag included) as they
\* were, in the ready state, in the degraded state and when a call to the
\* store or the model fails.
C19_ReadsChangeNothing ==
  [][ret'.op \in {"get_resume_insights", "semantic_resume_match",
                  "batch_semantic_analysis", "search_similar_resumes",
                  "search_similar_jobs", "get_relevant_knowledge",
                  "get_database_stats"}
       => /\ \A c \in Collections : store'[c] = store[c]
          /\ rag_system'.initialized = rag_system.initialized]_vars

\* a knowledge read whose store query failed, with the ten entries in place
C19_FailedReadLeftKnowledge ==
  /\ ret.op = "get_relevant_knowledge" /\ ret.ready /\ ret.fail = 2
  /\ Cardinality(store["screening_knowledge"].docs) = 10

(***************************************************************************)
(* C20                                                                     *)
(***************************************************************************)
\* every collection answers the calls made through the instance's handle
AllUsable ==
  /\ Usable(store, rag_system.resume_collection, "resumes")
  /\ Usable(store, rag_system.jd_collection, "job_descriptions")
  /\ Usable(store, rag_system.knowledge_collection, "screening_knowledge")

\* C20: in the ready state, with no failing call, the similar_resumes of
\* semantic_resume_match(resume_text, jd_text) are the result of
\* search_similar_resumes(jd_text, 3), its similar_jobs the result of
\* search_similar_jobs(resume_text, 3), on the same store, and the counts
\* of analysis_context are the sizes of the three collections.
C20_MatchContextIsCrossSearch ==
  (ret.op = "semantic_resume_match" /\ ret.ready /\ ret.fail = 0 /\ AllUsable)
    => /\ ret.v.similar_resumes
            = search_similar_resumes(rag_system, store, ret.job_description, 3, 0).v
       /\ ret.v.similar_jobs
            = search_similar_jobs(rag_system, store, ret.resume_text, 3, 0).v
       /\ ret.v.analysis_context
            = [total_resumes_in_db |-> Cardinality(store["resumes"].docs),
               total_jobs_in_db |-> Cardinality(store["job_descriptions"].docs),
               knowledge_items |-> Cardinality(store["screening_knowledge"].docs)]

\* a match of two different texts with two resumes and one job stored
C20_MatchWithBothContexts ==
  /\ ret.op = "semantic_resume_match" /\ ret.ready /\ ret.fail = 0
  /\ ret.resume_text # ret.job_description
  /\ Len(ret.v.similar_resumes) = 2 /\ Len(ret.v.similar_jobs) = 1
  /\ ret.v.similar_resumes[1].id # ret.v.similar_resumes[2].id

(***************************************************************************)
(* C21                                                                     *)
(***************************************************************************)
\* C21: validate_metadata_for_chromadb returns a mapping with the keys of
\* its argument in which every value is a scalar (str, int, float, bool or
\* None): a scalar value is returned as it is, any other value as the
\* string of its representation; applied to its own result it returns that
\* result.
C21_ValidateFlattensOnce ==
  /\ ret.op = "validate_metadata_for_chromadb"
       => /\ DOMAIN ret.v = DOMAIN ret.metadata_dict
          /\ \A key \in DOMAIN ret.metadata_dict :
               LET value == ret.metadata_dict[key]
               IN /\ ret.v[key].type \in {"str", "int", "float", "bool", "NoneType"}
                  /\ value.type \in {"str", "int", "float", "bool", "NoneType"}
                       => ret.v[key] = value
                  /\ value.type \notin {"str", "int", "float", "bool", "NoneType"}
                       => ret.v[key] = [type |-> "str", repr |-> value.repr]
  /\ ret.op = "validate twice" => ret.v = ret.once

\* a mapping with a list and a None, validated twice
C21_ListAndNoneValidatedTwice ==
  /\ ret.op = "validate twice"
  /\ ret.metadata_dict = [filename |-> [type |-> "NoneType", repr |-> "None"],
                          skills |-> [type |-> "list", repr |-> "['x', 'y']"]]
  /\ ret.v = [filename |-> [type |-> "NoneType", repr |-> "None"],
              skills |-> [type |-> "str", repr |-> "['x', 'y']"]]

(***************************************************************************)
(* C22                                                                     *)
(***************************************************************************)
PartlySeeded ==
  /\ store["screening_knowledge"].exists
  /\ Cardinality(store["screening_knowledge"].docs) \in 1..(KnowledgeSize - 1)

\* C22: when a seeding run was interrupted after some but not all of the
\* entries were inserted, later seeding runs insert the missing ones: the
\* knowledge collection comes to hold all the curated entries.
C22_PartialSeedIsCompleted ==
  PartlySeeded ~> (Cardinality(store["screening_knowledge"].docs) = KnowledgeSize)

\* a seeding run of the ready instance in which nothing failed returned and
\* the collection still holds three entries
C22_SeedRunLeftThree ==
  /\ ret.op = "_initialize_knowledge_base" /\ ret.ready /\ ret.seedfail = 0
  /\ ret.outcome = "ok"
  /\ Cardinality(store["screening_knowledge"].docs) = 3

(***************************************************************************)
(* C23                                                                     *)
(***************************************************************************)
\* C23: a clear_database that raises leaves every collection in existence
\* with the records it held and the instance's handles on existing
\* collections, so that in the ready state an add of a new id in which no
\* call fails succeeds.
C23_FailedClearChangesNothing ==
  [][/\ (ret'.op = "clear_database" /\ ret'.ready /\ ret'.outcome = "raise")
          => /\ \A c \in Collections : store'[c].exists /\ store'[c] = store[c]
             /\ AllUsable'
     /\ (/\ ret'.op \in AddOps /\ ret'.ready /\ ret'.fail = 0
         /\ ret'.id \notin DocIds(store[Target(ret'.op)].docs))
          => ret'.outcome = "ok"]_vars

\* after a clear_database that raised, an add_resume of a new id in which no
\* call was made to fail raised: the resumes collection is gone
C23_AddRaisedAfterFailedClear ==
  /\ ret.op = "add_resume" /\ ret.ready /\ ret.fail = 0
  /\ ret.outcome = "raise"
  /\ ~store["resumes"].exists

(***************************************************************************)
(* C24                                                                     *)
(***************************************************************************)
\* C24: under every interleaving of the seeding runs of constructions and
\* of clear_database calls over one store, the knowledge collection holds
\* at most ten records, each with one of the ids knowledge_0 .. knowledge_9
\* and the curated text of that index; and a step that is not a step of
\* such a run (an add_resume or add_job_description of a caller) leaves the
\* knowledge collection as it was.
C24_KnowledgeStaysCurated ==
  /\ [](/\ Cardinality(store["screening_knowledge"].docs) <= KnowledgeSize
        /\ \A d \in store["screening_knowledge"].docs :
             \E i \in 1..KnowledgeSize :
               d.id = KnowledgeIds[i] /\ d.text = KnowledgeTexts[i])
  /\ [][threads' = threads
          => store'["screening_knowledge"] = store["screening_knowledge"]]_vars

\* two seeding runs under way at once, both past the emptiness check, three
\* entries inserted, and a resume added by a caller
C24_TwoSeedersAtOnce ==
  /\ threads["t1"].pc = "seed" /\ threads["t2"].pc = "seed"
  /\ threads["t1"].i = 4 /\ threads["t2"].i = 1
  /\ Cardinality(store["screening_knowledge"].docs) = 3
  /\ Cardinality(store["resumes"].docs) = 1

====
